---- MODULE Spec2Model ----
(***************************************************************************)
(* davos: the Project abstraction (davos/core/project.py) and the pure-    *)
(* Python shell helper (davos/implementations/python.py).                  *)
(*                                                                         *)
(* Strings are sequences of one-character strings.  Paths are POSIX.       *)
(* Four specifications share the variables:                                *)
(*   NameSpec   the name functions (ProjectChecker.__call__, _set_names)   *)
(*              applied to inputs drawn from a bounded set;                *)
(*   Spec       the life cycle of Project objects in one process;          *)
(*   RaceSpec   Spec plus a second process working on the same directory;  *)
(*   ShellSpec  _run_shell_command_helper and its child process.           *)
(***************************************************************************)
EXTENDS Integers, Sequences, FiniteSets, TLC

VARIABLES nm, files, udirs, disk, objs, hooks, phase, hpc, hookRaised, last, sh

vars == <<nm, files, udirs, disk, objs, hooks, phase, hpc, hookRaised, last, sh>>

(***************************************************************************)
(* Bounds.                                                                 *)
(***************************************************************************)
MaxPieces == 3

MaxPairPieces == 2

MaxObjs == 2

MaxFiles == 1

MaxLines == 2

MaxExit == 2

(***************************************************************************)
(* Program constants.                                                      *)
(***************************************************************************)
PATHSEP == <<"/">>

PATHSEP_REPLACEMENT == <<"_", "_", "_">>

IPYNB == <<".", "i", "p", "y", "n", "b">>

\* ~/.davos/projects, abbreviated to one symbol that no name contains.
DAVOS_PROJECT_DIR == <<"~">>

\* The working directory of the process, against which relative paths resolve.
CWD == <<"/", "w">>

NoStr == <<"<none>">>

(***************************************************************************)
(* str operations.                                                         *)
(***************************************************************************)
StartsWith(s, p) == Len(s) >= Len(p) /\ SubSeq(s, 1, Len(p)) = p

Drop(s, n) == SubSeq(s, n + 1, Len(s))

\* sub in s
Contains(s, sub) == \E i \in 1..(Len(s) - Len(sub) + 1) : SubSeq(s, i, i + Len(sub) - 1) = sub

\* s.replace(old, new): leftmost, non-overlapping, one pass (old is non-empty).
RECURSIVE Replace(_, _, _)
Replace(s, old, new) ==
    IF Len(s) < Len(old) THEN s
    ELSE IF StartsWith(s, old) THEN new \o Replace(Drop(s, Len(old)), old, new)
    ELSE <<Head(s)>> \o Replace(Tail(s), old, new)

(***************************************************************************)
(* pathlib operations used by the code.                                    *)
(***************************************************************************)
\* The non-empty components of a path, in order.
RECURSIVE Components(_, _)
Components(s, cur) ==
    IF s = <<>> THEN (IF cur = <<>> THEN <<>> ELSE <<cur>>)
    ELSE IF Head(s) = "/" THEN (IF cur = <<>> THEN <<>> ELSE <<cur>>) \o Components(Tail(s), <<>>)
    ELSE Components(Tail(s), Append(cur, Head(s)))

RECURSIVE JoinAbs(_)
JoinAbs(cs) == IF cs = <<>> THEN <<>> ELSE PATHSEP \o Head(cs) \o JoinAbs(Tail(cs))

RECURSIVE LeadingSeps(_)
LeadingSeps(s) == IF s # <<>> /\ Head(s) = "/" THEN 1 + LeadingSeps(Tail(s)) ELSE 0

\* Path(expandvars(name)).expanduser().resolve(strict=False) on a file
\* system without symbolic links, for names without '$', '~', '.' or '..'
\* components: made absolute against the working directory, repeated and
\* trailing separators dropped.
Resolve(p) ==
    LET abs == IF StartsWith(p, PATHSEP) THEN p ELSE CWD \o PATHSEP \o p
        cs  == Components(abs, <<>>)
    IN  IF cs = <<>> THEN PATHSEP ELSE JoinAbs(cs)

\* str(Path(p)): repeated and trailing separators dropped, exactly two
\* leading separators kept (POSIX), no resolution against the working
\* directory.
PathStr(p) ==
    LET cs   == Components(p, <<>>)
        lead == LeadingSeps(p)
        body == IF cs = <<>> THEN <<>> ELSE Drop(JoinAbs(cs), 1)
    IN  IF lead = 2 THEN PATHSEP \o PATHSEP \o body
        ELSE IF lead >= 1 THEN PATHSEP \o body
        ELSE IF body = <<>> THEN <<".">> ELSE body

\* PurePath.name: the last component.
BaseName(p) == LET cs == Components(p, <<>>) IN IF cs = <<>> THEN <<>> ELSE cs[Len(cs)]

\* PurePath.suffix: from the last '.' of the name, unless that dot is the
\* first or the last character of the name.
Suffix(p) ==
    LET name == BaseName(p)
        dots == {i \in 1..Len(name) : name[i] = "."}
    IN  IF dots = {} THEN <<>>
        ELSE LET i == CHOOSE j \in dots : \A k \in dots : k <= j
             IN  IF 1 < i /\ i < Len(name) THEN SubSeq(name, i, Len(name)) ELSE <<>>

\* Path.is_file() / Path.is_dir(): the operating system resolves the path
\* against the working directory.
IsFile(p, fs) == Resolve(p) \in fs

IsDir(p, ds) == Resolve(p) \in ds

(***************************************************************************)
(* ProjectChecker.__call__: the class to build and the name handed to      *)
(* __init__, or the DavosProjectError.                                     *)
(***************************************************************************)
DavosProjectError == [err |-> TRUE, cls |-> "none", name |-> <<"<none>">>]

\* The path branch keeping the name as given instead of the resolved path.
CheckPathUnresolved(name, fs, ds) ==
    LET name_path == Resolve(name)
    IN  IF Suffix(name_path) # IPYNB \/ IsDir(name_path, ds)
        THEN DavosProjectError
        ELSE [err |-> FALSE,
              cls |-> IF IsFile(name_path, fs) THEN "Concrete" ELSE "Abstract",
              name |-> name]

CheckPath(name, fs, ds) ==
    LET name_path == Resolve(name)
    IN  IF Suffix(name_path) # IPYNB \/ IsDir(name_path, ds)
        THEN DavosProjectError
        ELSE [err |-> FALSE,
              cls |-> IF IsFile(name_path, fs) THEN "Concrete" ELSE "Abstract",
              name |-> name_path]

CheckToken(name, fs, ds) ==
    LET name_path == PathStr(Replace(name, PATHSEP_REPLACEMENT, PATHSEP) \o IPYNB)
    IN  [err |-> FALSE,
         cls |-> IF IsFile(name_path, fs) THEN "Concrete" ELSE "Abstract",
         name |-> name_path]

ProjectChecker(name, fs, ds) ==
    IF Contains(name, PATHSEP) THEN CheckPath(name, fs, ds)
    ELSE IF Contains(name, PATHSEP_REPLACEMENT) THEN CheckToken(name, fs, ds)
    ELSE [err |-> FALSE, cls |-> "Concrete", name |-> name]

(***************************************************************************)
(* Project._set_names.                                                     *)
(***************************************************************************)
SafeName(name) == Replace(Replace(name, PATHSEP, PATHSEP_REPLACEMENT), IPYNB, <<>>)

\* DAVOS_PROJECT_DIR.joinpath(safe_name): joining the empty string gives
\* DAVOS_PROJECT_DIR itself.
ProjectDir(safe_name) ==
    IF safe_name = <<>> THEN DAVOS_PROJECT_DIR
    ELSE DAVOS_PROJECT_DIR \o PATHSEP \o safe_name

(***************************************************************************)
(* Inputs: concatenations of a few pieces.                                 *)
(***************************************************************************)
Pieces == {PATHSEP, PATHSEP_REPLACEMENT, <<"a">>, IPYNB}

RECURSIVE PieceStrings(_)
PieceStrings(n) ==
    IF n = 0 THEN {<<>>}
    ELSE {p \o s : p \in Pieces, s \in PieceStrings(n - 1)}

NamesUpTo(n) == UNION {PieceStrings(k) : k \in 1..n}

Names == NamesUpTo(MaxPieces)

PairNames == NamesUpTo(MaxPairPieces)

(***************************************************************************)
(* Values of the variables a specification does not use.                   *)
(***************************************************************************)
NoResult == [err |-> TRUE, cls |-> "none", name |-> NoStr]

NmIdle == [pc |-> "off", a |-> NoStr, b |-> NoStr, ra |-> NoResult, sa |-> NoStr,
           rec |-> NoStr, rb |-> NoResult, sb |-> NoStr]

None == -1

ShIdle == [pc |-> "off", via |-> "none", child |-> "none", code |-> 0, toWrite |-> 0,
           pipe |-> 0, out |-> 0, retcode |-> None, raised |-> None]

(***************************************************************************)
(* The directories under DAVOS_PROJECT_DIR.  disk maps every existing      *)
(* directory to the number of files in it; the project directories are the *)
(* children of DAVOS_PROJECT_DIR, whose own parent DAVOS_CONFIG_DIR exists *)
(* from import on.                                                         *)
(***************************************************************************)
\* DAVOS_PROJECT_DIR exists and is empty.
EmptyDisk == (DAVOS_PROJECT_DIR :> 0)

Exists(d, dk) == d \in DOMAIN dk

Children(d, dk) == IF d = DAVOS_PROJECT_DIR THEN DOMAIN dk \ {DAVOS_PROJECT_DIR} ELSE {}

IsEmptyDir(d, dk) == dk[d] = 0 /\ Children(d, dk) = {}

Without(dk, ds) == [x \in DOMAIN dk \ ds |-> dk[x]]

\* Path.mkdir(parents=False, exist_ok=True)
Mkdir(d, dk) ==
    IF Exists(d, dk) THEN [exc |-> "ok", disk |-> dk]
    ELSE IF d # DAVOS_PROJECT_DIR /\ ~Exists(DAVOS_PROJECT_DIR, dk)
    THEN [exc |-> "FileNotFoundError", disk |-> dk]
    ELSE [exc |-> "ok", disk |-> dk @@ (d :> 0)]

\* Path.rmdir()
Rmdir(d, dk) ==
    IF ~Exists(d, dk) THEN [exc |-> "FileNotFoundError", disk |-> dk]
    ELSE IF ~IsEmptyDir(d, dk) THEN [exc |-> "OSError", disk |-> dk]
    ELSE [exc |-> "ok", disk |-> Without(dk, {d})]

\* A removal that gives up on a directory that is not empty.
RmtreeEmptyOnly(d, dk) ==
    IF ~Exists(d, dk) THEN [exc |-> "FileNotFoundError", disk |-> dk]
    ELSE IF ~IsEmptyDir(d, dk) THEN [exc |-> "ok", disk |-> dk]
    ELSE [exc |-> "ok", disk |-> Without(dk, {d})]

\* shutil.rmtree(d)
Rmtree(d, dk) ==
    IF ~Exists(d, dk) THEN [exc |-> "FileNotFoundError", disk |-> dk]
    ELSE [exc |-> "ok", disk |-> Without(dk, {d} \cup Children(d, dk))]

\* Project.__del__: every OSError of rmdir is swallowed.
ProjectDel(d, dk) == [exc |-> "ok", disk |-> Rmdir(d, dk).disk]

(***************************************************************************)
(* Attribute access on a project: rename and update_name are defined on    *)
(* Project, installed_packages on ConcreteProject only; a name that normal *)
(* lookup does not find goes to AbstractProject.__getattr__.               *)
(***************************************************************************)
ProjectAttrs == {"rename", "update_name"}

ConcreteAttrs == ProjectAttrs \cup {"installed_packages"}

\* AbstractProject.__getattr__: both branches raise AttributeError.
AbstractGetattr(item) == "AttributeError"

\* Every variant answers like the Concrete one.
InvokeAsConcrete(cls, item) == "NotImplementedError"

Invoke(cls, item) ==
    IF item \in ProjectAttrs THEN "NotImplementedError"
    ELSE IF cls = "Concrete" THEN "NotImplementedError"
    ELSE AbstractGetattr(item)

(***************************************************************************)
(* Spec: Project objects of one process.                                   *)
(***************************************************************************)
NoObj == [st |-> "unborn", cls |-> "none", name |-> NoStr, safe_name |-> NoStr,
          dir |-> NoStr, removed |-> FALSE]

DeadObj == [NoObj EXCEPT !.st = "dead"]

\* The last operation: its arguments, its outcome, and the state it started in.
NoOp == [op |-> "none", obj |-> 0, input |-> NoStr, yes |-> FALSE, answer |-> FALSE,
         exc |-> "ok", cls |-> "none", dir |-> NoStr, pre |-> EmptyDisk, preObj |-> NoObj]

LifeIdle ==
    /\ disk = EmptyDisk
    /\ objs = [i \in 1..MaxObjs |-> NoObj]
    /\ hooks = <<>>
    /\ phase = "off"
    /\ hpc = "idle"
    /\ hookRaised = FALSE
    /\ last = NoOp

\* The names handed to Project(...).
NB == <<"/", "a">> \o IPYNB

LifeNames == {<<"a">>, <<"a">> \o IPYNB, IPYNB, NB, PATHSEP_REPLACEMENT \o <<"a">>, <<"/", "a">>}

LifeDirs ==
    {DAVOS_PROJECT_DIR} \cup
    {ProjectDir(SafeName(ProjectChecker(n, {}, {}).name)) :
        n \in {m \in LifeNames : ~ProjectChecker(m, {}, {}).err}}

Init ==
    /\ nm = NmIdle
    /\ \E kind \in {"absent", "file", "dir"} :
          /\ files = IF kind = "file" THEN {NB} ELSE {}
          /\ udirs = IF kind = "dir" THEN {NB} ELSE {}
    /\ disk = EmptyDisk
    /\ objs = [i \in 1..MaxObjs |-> NoObj]
    /\ hooks = <<>>
    /\ phase = "running"
    /\ hpc = "idle"
    /\ hookRaised = FALSE
    /\ last = NoOp
    /\ sh = ShIdle

Live(i) == objs[i].st = "live"

Op(op, i) == [NoOp EXCEPT !.op = op, !.obj = i, !.pre = disk,
                          !.preObj = IF i = 0 THEN NoObj ELSE objs[i],
                          !.cls = IF i = 0 THEN "none" ELSE objs[i].cls,
                          !.dir = IF i = 0 THEN NoStr ELSE objs[i].dir]

\* Project(name): ProjectChecker.__call__, then Project.__init__.  When
\* mkdir raises, the half-built object is reclaimed at once and its __del__
\* finds no directory to remove.
Construct(name) ==
    /\ phase = "running"
    /\ \E i \in 1..MaxObjs :
          /\ objs[i].st = "unborn"
          /\ \A j \in 1..(i - 1) : objs[j].st # "unborn"
          /\ LET r == ProjectChecker(name, files, udirs)
                 safe == SafeName(r.name)
                 d == ProjectDir(safe)
                 m == Mkdir(d, disk)
                 op == [Op("construct", 0) EXCEPT !.input = name]
             IN  IF r.err
                 THEN /\ last' = [op EXCEPT !.exc = "DavosProjectError"]
                      /\ UNCHANGED <<disk, objs, hooks>>
                 ELSE IF m.exc # "ok"
                 THEN /\ last' = [op EXCEPT !.exc = m.exc, !.cls = r.cls, !.dir = d]
                      /\ disk' = ProjectDel(d, disk).disk
                      /\ UNCHANGED <<objs, hooks>>
                 ELSE /\ last' = [op EXCEPT !.obj = i, !.cls = r.cls, !.dir = d]
                      /\ disk' = m.disk
                      /\ hooks' = Append(hooks, d)
                      /\ objs' = [objs EXCEPT ![i] =
                                    [st |-> "live", cls |-> r.cls, name |-> r.name,
                                     safe_name |-> safe, dir |-> d, removed |-> FALSE]]
    /\ UNCHANGED <<nm, files, udirs, phase, hpc, hookRaised, sh>>

\* Project.__del__: the object is reclaimed (del, or interpreter shutdown
\* after the exit hooks).
Finalize(i) ==
    /\ Live(i)
    /\ phase = "running" \/ (phase = "atexit" /\ hooks = <<>>)
    /\ LET r == ProjectDel(objs[i].dir, disk)
       IN  /\ disk' = r.disk
           /\ last' = [Op("del", i) EXCEPT !.exc = r.exc]
    /\ objs' = [objs EXCEPT ![i] = DeadObj]
    /\ UNCHANGED <<nm, files, udirs, hooks, phase, hpc, hookRaised, sh>>

\* Project.remove(yes): answer is what prompt_input returns when asked.
Remove(i, yes, answer) ==
    /\ Live(i)
    /\ phase = "running"
    /\ yes => ~answer
    /\ LET op == [Op("remove", i) EXCEPT !.yes = yes, !.answer = answer]
           r == Rmtree(objs[i].dir, disk)
       IN  IF ~yes /\ ~answer
           THEN /\ last' = op
                /\ UNCHANGED <<disk, objs>>
           ELSE /\ last' = [op EXCEPT !.exc = r.exc]
                /\ disk' = r.disk
                /\ objs' = [objs EXCEPT ![i].removed = TRUE]
    /\ UNCHANGED <<nm, files, udirs, hooks, phase, hpc, hookRaised, sh>>

Raises(i, item) ==
    /\ phase = "running"
    /\ last' = [Op(item, i) EXCEPT !.exc = Invoke(objs[i].cls, item)]
    /\ UNCHANGED <<nm, files, udirs, disk, objs, hooks, phase, hpc, hookRaised, sh>>

\* Project.rename(new_name)
Rename(i) ==
    /\ Live(i)
    /\ Raises(i, "rename")

\* Project.update_name()
UpdateName(i) ==
    /\ Live(i)
    /\ Raises(i, "update_name")

\* project.installed_packages
InstalledPackages(i) ==
    /\ Live(i)
    /\ Raises(i, "installed_packages")

\* A package is installed into a live project's directory (under its
\* site_packages_dir): the directory is no longer empty.
Install(i) ==
    /\ phase = "running"
    /\ Live(i)
    /\ Exists(objs[i].dir, disk)
    /\ disk[objs[i].dir] < MaxFiles
    /\ disk' = [disk EXCEPT ![objs[i].dir] = @ + 1]
    /\ last' = Op("install", i)
    /\ UNCHANGED <<nm, files, udirs, objs, hooks, phase, hpc, hookRaised, sh>>

\* The process exits: atexit runs the registered hooks, last registered first.
Exit ==
    /\ phase = "running"
    /\ phase' = "atexit"
    /\ last' = Op("exit", 0)
    /\ UNCHANGED <<nm, files, udirs, disk, objs, hooks, hpc, hookRaised, sh>>

HookDir == hooks[Len(hooks)]

HookDone == SubSeq(hooks, 1, Len(hooks) - 1)

\* cleanup_project_dir_atexit: dirpath.is_dir()
HookIsDir ==
    /\ phase = "atexit" /\ hooks # <<>> /\ hpc = "idle"
    /\ IF Exists(HookDir, disk)
       THEN hpc' = "iterdir" /\ UNCHANGED <<hooks, last>>
       ELSE /\ hooks' = HookDone
            /\ last' = [Op("hook", 0) EXCEPT !.dir = HookDir]
            /\ UNCHANGED hpc
    /\ UNCHANGED <<nm, files, udirs, disk, objs, phase, hookRaised, sh>>

\* cleanup_project_dir_atexit: next(dirpath.iterdir(), None) is None, which
\* is evaluated outside the try block.
HookIterdir ==
    /\ phase = "atexit" /\ hpc = "iterdir"
    /\ IF ~Exists(HookDir, disk)
       THEN /\ hookRaised' = TRUE
            /\ hpc' = "idle"
            /\ hooks' = HookDone
            /\ last' = [Op("hook", 0) EXCEPT !.dir = HookDir, !.exc = "FileNotFoundError"]
       ELSE IF IsEmptyDir(HookDir, disk)
       THEN hpc' = "rmdir" /\ UNCHANGED <<hooks, hookRaised, last>>
       ELSE /\ hpc' = "idle"
            /\ hooks' = HookDone
            /\ last' = [Op("hook", 0) EXCEPT !.dir = HookDir]
            /\ UNCHANGED hookRaised
    /\ UNCHANGED <<nm, files, udirs, disk, objs, phase, sh>>

\* cleanup_project_dir_atexit: dirpath.rmdir() inside try/except OSError.
HookRmdir ==
    /\ phase = "atexit" /\ hpc = "rmdir"
    /\ disk' = Rmdir(HookDir, disk).disk
    /\ hpc' = "idle"
    /\ hooks' = HookDone
    /\ last' = [Op("hook", 0) EXCEPT !.dir = HookDir]
    /\ UNCHANGED <<nm, files, udirs, objs, phase, hookRaised, sh>>

Next ==
    \/ \E n \in LifeNames : Construct(n)
    \/ \E i \in 1..MaxObjs : Finalize(i)
    \/ \E i \in 1..MaxObjs, yes \in BOOLEAN, answer \in BOOLEAN : Remove(i, yes, answer)
    \/ \E i \in 1..MaxObjs : Rename(i)
    \/ \E i \in 1..MaxObjs : UpdateName(i)
    \/ \E i \in 1..MaxObjs : InstalledPackages(i)
    \/ \E i \in 1..MaxObjs : Install(i)
    \/ Exit
    \/ HookIsDir
    \/ HookIterdir
    \/ HookRmdir

Spec == Init /\ [][Next]_vars

(***************************************************************************)
(* RaceSpec: a second process that uses the same project names creates     *)
(* (its Project.__init__) and removes (its Project.__del__) the same       *)
(* directories at any moment.                                              *)
(***************************************************************************)
OtherInit(d) ==
    /\ Mkdir(d, disk).disk # disk
    /\ disk' = Mkdir(d, disk).disk
    /\ UNCHANGED <<nm, files, udirs, objs, hooks, phase, hpc, hookRaised, last, sh>>

OtherDel(d) ==
    /\ ProjectDel(d, disk).disk # disk
    /\ disk' = ProjectDel(d, disk).disk
    /\ UNCHANGED <<nm, files, udirs, objs, hooks, phase, hpc, hookRaised, last, sh>>

NextRace ==
    \/ Next
    \/ \E d \in LifeDirs : OtherInit(d)
    \/ \E d \in LifeDirs : OtherDel(d)

RaceSpec == Init /\ [][NextRace]_vars

(***************************************************************************)
(* NameSpec: the name functions applied to bounded inputs.  nm.a is        *)
(* classified, flattened and recovered from its directory name; nm.b is    *)
(* classified and flattened.                                               *)
(***************************************************************************)
\* The path whose existence ProjectChecker tests for an input.
Candidate(name) ==
    IF Contains(name, PATHSEP) THEN Resolve(name)
    ELSE Resolve(PathStr(Replace(name, PATHSEP_REPLACEMENT, PATHSEP) \o IPYNB))

InitN ==
    /\ \E a \in Names, b \in PairNames :
          nm = [NmIdle EXCEPT !.pc = "start", !.a = a, !.b = b]
    /\ \E kind \in {"absent", "file", "dir"} :
          /\ files = IF kind = "file" THEN {Candidate(nm.a)} ELSE {}
          /\ udirs = IF kind = "dir" THEN {Candidate(nm.a)} ELSE {}
    /\ LifeIdle
    /\ sh = ShIdle

NameFrame == UNCHANGED <<files, udirs, disk, objs, hooks, phase, hpc, hookRaised, last, sh>>

\* Project(nm.a): ProjectChecker.__call__
NCheckA ==
    /\ nm.pc = "start"
    /\ nm' = [nm EXCEPT !.pc = "a_checked", !.ra = ProjectChecker(nm.a, files, udirs)]
    /\ NameFrame

\* Project.__init__ -> _set_names
NSetNamesA ==
    /\ nm.pc = "a_checked"
    /\ ~nm.ra.err
    /\ nm' = [nm EXCEPT !.pc = "a_named", !.sa = SafeName(nm.ra.name)]
    /\ NameFrame

\* The directory name read back from DAVOS_PROJECT_DIR and handed to
\* Project(...) again.
NRecoverA ==
    /\ nm.pc = "a_named"
    /\ nm' = [nm EXCEPT !.pc = "a_recovered",
                        !.rec = ProjectChecker(nm.sa, files, udirs).name]
    /\ NameFrame

NCheckB ==
    /\ \/ nm.pc = "a_recovered"
       \/ nm.pc = "a_checked" /\ nm.ra.err
    /\ nm' = [nm EXCEPT !.pc = "b_checked", !.rb = ProjectChecker(nm.b, files, udirs)]
    /\ NameFrame

NSetNamesB ==
    /\ nm.pc = "b_checked"
    /\ ~nm.rb.err
    /\ nm' = [nm EXCEPT !.pc = "done", !.sb = SafeName(nm.rb.name)]
    /\ NameFrame

NextN == NCheckA \/ NSetNamesA \/ NRecoverA \/ NCheckB \/ NSetNamesB

NameSpec == InitN /\ [][NextN]_vars

AChecked == nm.pc \in {"a_checked", "a_named", "a_recovered", "b_checked", "done"}

ANamed == nm.sa # NoStr

ARecovered == nm.rec # NoStr

InPath(name) == Contains(name, PATHSEP)

InToken(name) == ~Contains(name, PATHSEP) /\ Contains(name, PATHSEP_REPLACEMENT)

InPlain(name) == ~Contains(name, PATHSEP) /\ ~Contains(name, PATHSEP_REPLACEMENT)

EndsWith(s, e) == Len(s) >= Len(e) /\ SubSeq(s, Len(s) - Len(e) + 1, Len(s)) = e

\* C3: a resolved notebook path, flattened by _set_names and recovered by
\* the placeholder-token branch, comes back unchanged.
C3_RoundTrip ==
    (ARecovered /\ InPath(nm.a)) => nm.rec = nm.ra.name

\* C9: two inputs without the token '___' that resolve to different names
\* get different safe_names (hence different project_dirs).
C9_DistinctDirs ==
    (nm.pc = "done" /\ ANamed
        /\ ~Contains(nm.a, PATHSEP_REPLACEMENT) /\ ~Contains(nm.b, PATHSEP_REPLACEMENT)
        /\ nm.ra.name # nm.rb.name)
    => (nm.sa # nm.sb /\ ProjectDir(nm.sa) # ProjectDir(nm.sb))

InitS ==
    /\ \E via \in {"direct", "conda"}, code \in 0..MaxExit, n \in 0..MaxLines :
          sh = [ShIdle EXCEPT !.pc = "call", !.via = via, !.code = code, !.toWrite = n]
    /\ nm = NmIdle
    /\ files = {}
    /\ udirs = {}
    /\ LifeIdle

ShellFrame == UNCHANGED <<nm, files, udirs, disk, objs, hooks, phase, hpc, hookRaised, last>>

\* process = Popen(cmd, stdout=PIPE, stderr=PIPE, ...)
Popen ==
    /\ sh.pc = "call"
    /\ sh' = [sh EXCEPT !.pc = "poll", !.child = "running"]
    /\ ShellFrame

\* The child writes one line to its stdout.
ChildWrite ==
    /\ sh.child = "running" /\ sh.toWrite > 0
    /\ sh' = [sh EXCEPT !.toWrite = @ - 1, !.pipe = @ + 1]
    /\ ShellFrame

\* The child exits with its status.
ChildExit ==
    /\ sh.child = "running" /\ sh.toWrite = 0
    /\ sh' = [sh EXCEPT !.child = "exited"]
    /\ ShellFrame

\* retcode = process.poll()
Poll ==
    /\ sh.pc = "poll"
    /\ sh' = [sh EXCEPT !.pc = "branch",
                        !.retcode = IF sh.child = "exited" THEN sh.code ELSE None]
    /\ ShellFrame

\* if retcode is None: output = process.stdout.readline(), which blocks
\* until a line is there or the pipe is closed; a line is written to
\* sys.stdout.
ReadLine ==
    /\ sh.pc = "branch" /\ sh.retcode = None
    /\ sh.pipe > 0 \/ sh.child = "exited"
    /\ sh' = IF sh.pipe > 0
             THEN [sh EXCEPT !.pc = "poll", !.pipe = @ - 1, !.out = @ + 1]
             ELSE [sh EXCEPT !.pc = "poll"]
    /\ ShellFrame

\* elif retcode != 0: raise CalledProcessError(returncode=retcode, cmd=cmd)
RaiseCalledProcessError ==
    /\ sh.pc = "branch" /\ sh.retcode # None /\ sh.retcode # 0
    /\ sh' = [sh EXCEPT !.pc = "raised", !.raised = sh.retcode]
    /\ ShellFrame

\* retcode == 0: neither branch of the loop body applies and `while True`
\* goes round again.
LoopAgain ==
    /\ sh.pc = "branch" /\ sh.retcode = 0
    /\ sh' = [sh EXCEPT !.pc = "poll"]
    /\ ShellFrame

\* except KeyboardInterrupt: process.send_signal(signal.SIGINT); raise
KeyboardInterrupt ==
    /\ sh.pc \in {"poll", "branch"}
    /\ sh' = [sh EXCEPT !.pc = "interrupted",
                        !.child = IF sh.child = "running" THEN "signalled" ELSE sh.child]
    /\ ShellFrame

\* _check_conda_avail_helper: except CalledProcessError: return None
CondaReturnNone ==
    /\ sh.pc = "raised" /\ sh.via = "conda"
    /\ sh' = [sh EXCEPT !.pc = "conda_none"]
    /\ ShellFrame

HelperStep == Popen \/ Poll \/ ReadLine \/ RaiseCalledProcessError \/ LoopAgain \/ CondaReturnNone

NextS == HelperStep \/ ChildWrite \/ ChildExit \/ KeyboardInterrupt

\* The helper and the child keep running while they can.
ShellSpec ==
    /\ InitS /\ [][NextS]_vars
    /\ WF_vars(HelperStep) /\ WF_vars(ChildWrite) /\ WF_vars(ChildExit)

\* C2: once the child has exited with status 0 the helper eventually
\* returns (0 to a direct caller, the captured output from
\* _check_conda_avail_helper), unless it is interrupted.
C2_ReturnsOnSuccess ==
    (sh.child = "exited" /\ sh.code = 0 /\ sh.pc # "interrupted")
        ~> (sh.pc \in {"returned", "conda_output", "interrupted"})

(***************************************************************************)
(* Claims about the life cycle.                                            *)
(***************************************************************************)
Constructed == last.op = "construct" /\ last.exc = "ok"

\* C1: a Concrete project's project_dir exists right after construction;
\* constructing an Abstract project leaves a project_dir that did not exist
\* before non-existent.
C1_AbstractCreatesNoDir ==
    Constructed =>
        /\ last.cls = "Concrete" => Exists(last.dir, disk)
        /\ (last.cls = "Abstract" /\ ~Exists(last.dir, last.pre)) => ~Exists(last.dir, disk)

\* C4: a plain name yields a Concrete project named as the input; a path
\* that resolves to a '.ipynb' non-directory yields Concrete when the file
\* exists and Abstract when it does not, with the safe_name and project_dir
\* of the resolved path either way; any other path fails with
\* DavosProjectError and creates no directory.
C4_Classification ==
    last.op = "construct" =>
        LET n == last.input
            valid == Suffix(Resolve(n)) = IPYNB /\ Resolve(n) \notin udirs
        IN  /\ InPlain(n) =>
                /\ last.exc = "ok" /\ last.cls = "Concrete"
                /\ objs[last.obj].name = n
            /\ (InPath(n) /\ valid) =>
                /\ last.exc = "ok"
                /\ last.cls = (IF Resolve(n) \in files THEN "Concrete" ELSE "Abstract")
                /\ objs[last.obj].safe_name = SafeName(Resolve(n))
                /\ last.dir = ProjectDir(SafeName(Resolve(n)))
            /\ (InPath(n) /\ ~valid) =>
                /\ last.exc = "DavosProjectError"
                /\ disk = last.pre

HasContent(d, dk) == Exists(d, dk) /\ ~IsEmptyDir(d, dk)

\* C5: remove(yes=True) on a project whose directory contains files deletes
\* the directory and everything under it; remove() answered 'no' changes
\* nothing on disk and returns normally.
C5_Remove ==
    last.op = "remove" =>
        /\ (last.yes /\ HasContent(last.dir, last.pre)) =>
                /\ last.exc = "ok"
                /\ ~Exists(last.dir, disk)
                /\ \A c \in Children(last.dir, last.pre) : ~Exists(c, disk)
        /\ (~last.yes /\ ~last.answer) =>
                /\ last.exc = "ok"
                /\ disk = last.pre
                /\ objs[last.obj] = last.preObj

C5_Witness ==
    /\ last.op = "remove" /\ last.yes
    /\ Exists(last.dir, last.pre) /\ last.pre[last.dir] > 0
    /\ ~Exists(last.dir, disk)

\* C6: neither Project.__del__ nor cleanup_project_dir_atexit ever raises,
\* whatever another process does to the directory in between.
C6_CleanupNeverRaises ==
    /\ ~hookRaised
    /\ last.op \in {"del", "hook"} => last.exc = "ok"

NotImplementedOps == {"rename", "update_name", "installed_packages"}

\* C7 as stated: rename, update_name and installed_packages raise
\* NotImplementedError on every project.
C7_AlwaysNotImplemented ==
    last.op \in NotImplementedOps => last.exc = "NotImplementedError"

\* C7 amended: rename and update_name raise NotImplementedError on both
\* variants; installed_packages raises NotImplementedError on a Concrete
\* project and AttributeError on an Abstract one; none of them changes the
\* project's names or the disk.
C7_NotImplementedByVariant ==
    last.op \in NotImplementedOps =>
        /\ last.exc = (IF last.op = "installed_packages" /\ last.cls = "Abstract"
                       THEN "AttributeError" ELSE "NotImplementedError")
        /\ disk = last.pre
        /\ objs[last.obj] = last.preObj

C7_Witness ==
    /\ last.op = "installed_packages" /\ last.cls = "Abstract"
    /\ last.exc = "AttributeError"

\* C8: every live Concrete project on which remove() was not called has an
\* existing project_dir.
C8_ConcreteDirExists ==
    \A i \in 1..MaxObjs :
        (Live(i) /\ objs[i].cls = "Concrete" /\ ~objs[i].removed) => Exists(objs[i].dir, disk)

====
